---- MODULE Spec2Model ----
(***************************************************************************)
(* Model of the redisconsumer engine (consumer/internal/redisconsumer):    *)
(* NewConsumer, Start, consumeStream, consumeLoop, processMessage, Stop,   *)
(* Health and serveHealth.  Goroutines are processes with a pc; the log    *)
(* service (Redis streams with a consumer group) hands every new entry to  *)
(* exactly one reader of the group.  Durations are counted in seconds.     *)
(***************************************************************************)
EXTENDS Integers, Sequences, FiniteSets, TLC

\* ------------------------------------------------------------------ bounds
MaxWorkers == 2      \* configured streams x concurrency is at most this
MaxReadCount == 2    \* the configured ReadCount of a running engine
MaxCalls == 3        \* Spec: Start/Stop calls made on the engine
FewEntries == 1      \* Spec: entries the producer appends, all streams together
SomeEntries == 2     \* SpecHealth: entries the producer appends, all streams together
LifeCalls == 4       \* SpecLife: Start/Stop calls made on the engine
FewCalls == 2        \* SpecWork: Start/Stop calls made on the engine
MaxEntries == 3      \* SpecWork: entries the producer appends, all streams together
MaxNow == 62         \* the clock stops here (seconds since construction)
MaxRaw == 2          \* raw numeric configuration fields range over -1..MaxRaw

\* ------------------------------------------------------ program constants
DefaultConcurrency == 1
DefaultReadCount == 10
DefaultBlockTime == 5
StaleAfter == 30

Threads == {1, 2}
StreamNames == <<"events", "logs", "notifications">>
ConsumerNames == {"c1"}

Min(a, b) == IF a < b THEN a ELSE b

\* the first n stream names, as the configured list
StreamList(n) == [k \in 1..n |-> StreamNames[k]]

VARIABLES
    env,          \* the surroundings: calls the callers make, entries the producer
                  \* appends, the answer of XGroupCreateMkStream per stream,
                  \* whether the contexts handed to Stop are never done
    input,        \* the ConsumerConfig the caller hands to NewConsumer
    cfg,          \* c.cfg of the Consumer NewConsumer returned
    handler,      \* whether the handler argument of NewConsumer is non-nil
    ctor,         \* "pending", or the error string NewConsumer returned ("nil": none)
    started,      \* c.started
    startMu,      \* c.startMu: 0 when free, else the thread holding it
    cancel,       \* c.cancel # nil
    ctxDone,      \* the context derived in Start is cancelled
    wg,           \* c.wg counter
    tpc,          \* per calling thread: where it is in Start or Stop
    tres,         \* per calling thread: what its last finished call returned
    tafter,       \* per calling thread: its Stop began after a Start had returned nil
    tfresh,       \* per calling thread: its Stop began on an engine no Start had
                  \* begun on
    tinflight,    \* per calling thread: entries inside a handler call when its Stop
                  \* began (emptied when that Stop returns nil)
    calls,        \* number of Start/Stop calls begun
    startIdx,     \* loop index of the Start call in progress
    startOk,      \* number of Start calls that returned nil
    startErr,     \* number of Start calls that returned "consumer already started"
    startLate,    \* number of those that began on a Stopped engine
    groupRes,     \* per stream: outcome of XGroupCreateMkStream
    healthPc,     \* the serveHealth goroutine
    waiter,       \* per calling thread: the goroutine of its latest Stop, which
                  \* waits on c.wg
    leftBehind,   \* per place in c.wg.Wait(): how many goroutines of earlier Stop
                  \* calls, which returned on their deadline, are there
    sup,          \* per stream: the consumeStream goroutine [pc, i]
    spawned,      \* number of `go c.consumeLoop` statements executed
    wpc,          \* per worker: where the consumeLoop goroutine is
    batch,        \* per worker: entries returned by the XReadGroup being processed
    idx,          \* per worker: position in batch of the entry being processed
    order,        \* per worker: entries of batch in the order their handler call began
    nextId,       \* per stream: entries the group has delivered so far
    handlerCalls, \* per entry: handler invocations begun
    handlerRes,   \* per entry: what the handler returned
    ackCalls,     \* per entry: XAck calls issued
    ackRes,       \* per entry: what XAck returned
    processed,    \* per entry: processMessage returned
    now,          \* the clock
    lastPoll,     \* c.lastPoll
    lastRead      \* time of the last read that returned entries; -1 when none

cfgVars == <<env, input, cfg, handler, ctor>>
callVars == <<tpc, tres, tafter, tfresh, tinflight, calls, startIdx, startOk, startErr,
              startLate>>
bootVars == <<groupRes, healthPc>>
loopVars == <<batch, idx, order, nextId>>
entryVars == <<handlerCalls, handlerRes, ackCalls, ackRes, processed>>
clockVars == <<now, lastPoll, lastRead>>
vars == <<cfgVars, started, startMu, cancel, ctxDone, wg, callVars, bootVars,
          waiter, leftBehind, sup, spawned, wpc, loopVars, entryVars, clockVars>>

StreamIdx == 1..MaxWorkers

\* lines 195-198: where a goroutine that has not closed done can be: before
\* c.wg.Wait(), blocked in it, woken in it, or dead of its panic
LeftStates == {"waiting", "registered", "released", "panic"}
AllWorkers == StreamIdx \X (0..(MaxWorkers - 1))
AllEntries == StreamIdx \X (1..MaxEntries)
GroupAnswers == {"ok", "BUSYGROUP", "error"}

\* the streams and worker loops of the configured engine
Streams == 1..Len(cfg.Streams)
Workers == {w \in AllWorkers : w[1] \in Streams /\ w[2] < cfg.Concurrency}

\* every consumeStream and consumeLoop goroutine of the engine has returned
AllWorkersExited ==
    /\ \A s \in Streams : sup[s].pc = "done"
    /\ \A w \in AllWorkers : wpc[w] = IF w \in Workers THEN "exited" ELSE "off"

\* the lifecycle state of the engine: 0 NotStarted, 1 Running, 2 Stopping
\* (cancelled, goroutines still to exit), 3 Stopped
Lifecycle ==
    IF ~started THEN 0
    ELSE IF ~ctxDone THEN 1
    ELSE IF ~AllWorkersExited THEN 2
    ELSE 3

\* ------------------------------------------------------------ NewConsumer
\* a validation that forgets the group name
NewConsumerErrNoGroup(c, h) ==
    IF ~h THEN "handler required"
    ELSE IF Len(c.Streams) = 0 THEN "streams and group are required"
    ELSE "nil"

\* lines 52-57: the error NewConsumer returns ("nil": none)
NewConsumerErr(c, h) ==
    IF ~h THEN "handler required"
    ELSE IF Len(c.Streams) = 0 \/ c.Group = "" THEN "streams and group are required"
    ELSE "nil"

\* lines 58-66: the defaults
ConcurrencyDefault(n) == IF n <= 0 THEN DefaultConcurrency ELSE n
ReadCountDefault(n) == IF n = 0 THEN DefaultReadCount ELSE n
BlockTimeDefault(d) == IF d = 0 THEN DefaultBlockTime ELSE d

NewConsumerCfg(c) ==
    [c EXCEPT !.Concurrency = ConcurrencyDefault(c.Concurrency),
              !.ReadCount = ReadCountDefault(c.ReadCount),
              !.BlockTime = BlockTimeDefault(c.BlockTime)]

\* ------------------------------------------------------------------- Init
\* configurations a caller may hand to NewConsumer
RawConfigs ==
    [Streams : {StreamList(n) : n \in 0..MaxWorkers},
     Group : {"", "workers"},
     ConsumerName : ConsumerNames,
     ReadCount : (-1)..MaxRaw,
     BlockTime : (-1)..MaxRaw,
     Concurrency : (-1)..MaxRaw,
     HealthAddr : {"", ":8082"},
     AckOnSuccess : BOOLEAN]

\* configurations of the engines that are run
RunConfigs ==
    {c \in [Streams : {StreamList(n) : n \in 1..MaxWorkers},
            Group : {"workers"},
            ConsumerName : ConsumerNames,
            ReadCount : {MaxReadCount},
            BlockTime : {0},
            Concurrency : 1..MaxWorkers,
            HealthAddr : {""},
            AckOnSuccess : BOOLEAN] :
        Len(c.Streams) * c.Concurrency <= MaxWorkers}

\* the Consumer value NewConsumer builds, nothing started
InitEngine ==
    /\ started = FALSE
    /\ startMu = 0
    /\ cancel = FALSE
    /\ ctxDone = FALSE
    /\ wg = 0
    /\ tpc = [t \in Threads |-> "idle"]
    /\ tres = [t \in Threads |-> "none"]
    /\ tafter = [t \in Threads |-> FALSE]
    /\ tfresh = [t \in Threads |-> FALSE]
    /\ tinflight = [t \in Threads |-> {}]
    /\ calls = 0
    /\ startIdx = 0
    /\ startOk = 0
    /\ startErr = 0
    /\ startLate = 0
    /\ groupRes = [s \in StreamIdx |-> "none"]
    /\ healthPc = "off"
    /\ waiter = [t \in Threads |-> "none"]
    /\ leftBehind = [st \in LeftStates |-> 0]
    /\ sup = [s \in StreamIdx |-> [pc |-> "off", i |-> 0]]
    /\ spawned = 0
    /\ wpc = [w \in AllWorkers |-> "off"]
    /\ batch = [w \in AllWorkers |-> <<>>]
    /\ idx = [w \in AllWorkers |-> 0]
    /\ order = [w \in AllWorkers |-> <<>>]
    /\ nextId = [s \in StreamIdx |-> 0]
    /\ handlerCalls = [e \in AllEntries |-> 0]
    /\ handlerRes = [e \in AllEntries |-> "none"]
    /\ ackCalls = [e \in AllEntries |-> 0]
    /\ ackRes = [e \in AllEntries |-> "none"]
    /\ processed = [e \in AllEntries |-> FALSE]
    /\ now = 0
    /\ lastPoll = 0
    /\ lastRead = -1

\* an engine NewConsumer has returned (lastPoll is the construction time);
\* callers that start, stop and start again, a producer that appends little
Init ==
    /\ env = [calls |-> MaxCalls, entries |-> FewEntries,
              group |-> [s \in StreamIdx |-> "ok"],
              patient |-> FALSE]
    /\ input \in RunConfigs
    /\ cfg = NewConsumerCfg(input)
    /\ handler = TRUE
    /\ ctor = "nil"
    /\ InitEngine

\* the same engine with a producer that appends more and fewer calls
InitWork ==
    /\ env = [calls |-> FewCalls, entries |-> MaxEntries,
              group |-> [s \in StreamIdx |-> "ok"],
              patient |-> FALSE]
    /\ input \in RunConfigs
    /\ cfg = NewConsumerCfg(input)
    /\ handler = TRUE
    /\ ctor = "nil"
    /\ InitEngine

\* an engine with two streams and a worker loop on each, which acknowledges,
\* and a producer that appends enough for several reads, while the clock runs
InitHealth ==
    /\ env = [calls |-> FewCalls, entries |-> SomeEntries,
              group |-> [s \in StreamIdx |-> "ok"],
              patient |-> FALSE]
    /\ input \in {c \in RunConfigs : Len(c.Streams) = MaxWorkers /\ c.AckOnSuccess}
    /\ cfg = NewConsumerCfg(input)
    /\ handler = TRUE
    /\ ctor = "nil"
    /\ InitEngine

\* engines that acknowledge, with callers that stop them before and after
\* they start them and start them again: one stream with one worker loop and
\* LifeCalls calls, or two streams and MaxCalls calls; the contexts handed to
\* Stop are, in some runs, never done
InitLife ==
    /\ env \in [calls : {MaxCalls, LifeCalls}, entries : {FewEntries},
                 group : {[s \in StreamIdx |-> "ok"]}, patient : BOOLEAN]
    /\ input \in {c \in RunConfigs : c.Concurrency = 1 /\ c.AckOnSuccess}
    /\ env.calls = LifeCalls <=> Len(input.Streams) = 1
    /\ cfg = NewConsumerCfg(input)
    /\ handler = TRUE
    /\ ctor = "nil"
    /\ InitEngine

\* the engine of Init, for what its goroutines do when they are scheduled
InitFair ==
    /\ env = [calls |-> FewCalls, entries |-> FewEntries,
              group |-> [s \in StreamIdx |-> "ok"],
              patient |-> FALSE]
    /\ input \in RunConfigs
    /\ cfg = NewConsumerCfg(input)
    /\ handler = TRUE
    /\ ctor = "nil"
    /\ InitEngine

\* engines with and without a health address, on a log service that answers
\* the group creation of every configured stream in any way
InitBoot ==
    /\ env \in [calls : {FewCalls}, entries : {FewEntries},
                 group : [StreamIdx -> GroupAnswers], patient : {FALSE}]
    /\ input \in {[c EXCEPT !.HealthAddr = a] :
                     c \in RunConfigs, a \in {"", ":8082"}}
    /\ \A s \in StreamIdx : s > Len(input.Streams) => env.group[s] = "ok"
    /\ cfg = NewConsumerCfg(input)
    /\ handler = TRUE
    /\ ctor = "nil"
    /\ InitEngine

\* a caller with any configuration, before it calls NewConsumer
InitConfig ==
    /\ env = [calls |-> 0, entries |-> 0, group |-> [s \in StreamIdx |-> "ok"],
              patient |-> FALSE]
    /\ input \in RawConfigs
    /\ handler \in BOOLEAN
    /\ cfg = input
    /\ ctor = "pending"
    /\ InitEngine

\* lines 51-84: NewConsumer(input, handler)
Configure ==
    /\ ctor = "pending"
    /\ ctor' = NewConsumerErr(input, handler)
    /\ cfg' = IF ctor' = "nil" THEN NewConsumerCfg(input) ELSE cfg
    /\ lastPoll' = now
    /\ UNCHANGED <<env, input, handler, started, startMu, cancel, ctxDone, wg,
                   callVars, bootVars, waiter, leftBehind, sup, spawned, wpc, loopVars,
                   entryVars, now, lastRead>>

\* ------------------------------------------------------------------ Start
\* a Start that never refuses
AlreadyStartedIgnored(flag) == FALSE

\* line 89: the test of c.started
AlreadyStarted(flag) == flag

\* lines 87-95: take startMu, refuse a second start, derive the context
StartEnter(t) ==
    /\ ctor = "nil"
    /\ tpc[t] = "idle"
    /\ calls < env.calls
    /\ startMu = 0
    /\ calls' = calls + 1
    /\ IF AlreadyStarted(started)
       THEN /\ tres' = [tres EXCEPT ![t] = "consumer already started"]
            /\ startErr' = startErr + 1
            /\ startLate' = IF Lifecycle = 3 THEN startLate + 1 ELSE startLate
            /\ UNCHANGED <<started, startMu, cancel, tpc, startIdx>>
       ELSE /\ started' = TRUE
            /\ cancel' = TRUE
            /\ startMu' = t
            /\ startIdx' = 1
            /\ tpc' = [tpc EXCEPT ![t] = "groups"]
            /\ tres' = [tres EXCEPT ![t] = "none"]
            /\ UNCHANGED <<startErr, startLate>>
    /\ UNCHANGED <<cfgVars, ctxDone, wg, tafter, tfresh, tinflight, startOk, bootVars,
                   waiter, leftBehind, sup, spawned, wpc, loopVars, entryVars, clockVars>>

\* a bootstrap that gives up on the first group it cannot create
GroupCreateAbortsOnError(res) == res = "error"

\* lines 99-103: no outcome of XGroupCreateMkStream makes Start return: the
\* error is compared with the BUSYGROUP text and otherwise logged
GroupCreateAborts(res) == FALSE

\* lines 98-104: one XGroupCreateMkStream; every outcome is at most logged
StartGroupCreate(t) ==
    /\ tpc[t] = "groups"
    /\ groupRes' = [groupRes EXCEPT ![startIdx] = env.group[startIdx]]
    /\ IF GroupCreateAborts(env.group[startIdx])
       THEN /\ startIdx' = 0
            /\ startMu' = 0
            /\ tpc' = [tpc EXCEPT ![t] = "idle"]
            /\ tres' = [tres EXCEPT ![t] = "group create error"]
       ELSE /\ IF startIdx < Len(cfg.Streams)
               THEN /\ startIdx' = startIdx + 1
                    /\ UNCHANGED tpc
               ELSE /\ startIdx' = 1
                    /\ tpc' = [tpc EXCEPT ![t] = "health"]
            /\ UNCHANGED <<startMu, tres>>
    /\ UNCHANGED <<cfgVars, started, cancel, ctxDone, wg, tafter, tfresh, tinflight,
                   calls, startOk, startErr, startLate, healthPc, waiter, leftBehind, sup,
                   spawned, wpc, loopVars, entryVars, clockVars>>

\* lines 107-109: go c.serveHealth when an address is configured
StartHealth(t) ==
    /\ tpc[t] = "health"
    /\ healthPc' = IF cfg.HealthAddr # "" THEN "serving" ELSE healthPc
    /\ tpc' = [tpc EXCEPT ![t] = "launch"]
    /\ UNCHANGED <<cfgVars, started, startMu, cancel, ctxDone, wg, tres, tafter, tfresh,
                   tinflight, calls, startIdx, startOk, startErr, startLate,
                   groupRes, waiter, leftBehind, sup,
                   spawned, wpc, loopVars, entryVars, clockVars>>

\* lines 233-237: srv.ListenAndServe() returns (the address cannot be bound,
\* the listener breaks); the error is logged and the goroutine ends.  Nothing
\* in serveHealth waits for ctx.Done() or closes srv.
ServeHealthFails ==
    /\ healthPc = "serving"
    /\ healthPc' = "exited"
    /\ UNCHANGED <<cfgVars, started, startMu, cancel, ctxDone, wg, callVars,
                   groupRes, waiter, leftBehind, sup, spawned, wpc, loopVars, entryVars,
                   clockVars>>

\* lines 112-115: c.wg.Add(1); go c.consumeStream(ctx, stream)
StartLaunch(t) ==
    /\ tpc[t] = "launch"
    /\ wg' = wg + 1
    /\ sup' = [sup EXCEPT ![startIdx] = [pc |-> "run", i |-> 0]]
    /\ IF startIdx < Len(cfg.Streams)
       THEN /\ startIdx' = startIdx + 1
            /\ UNCHANGED tpc
       ELSE /\ startIdx' = 0
            /\ tpc' = [tpc EXCEPT ![t] = "return"]
    /\ UNCHANGED <<cfgVars, started, startMu, cancel, ctxDone, tres, tafter, tfresh,
                   tinflight, calls,
                   startOk, startErr, startLate, bootVars, waiter, leftBehind, spawned, wpc, loopVars,
                   entryVars, clockVars>>

\* line 117 and the deferred unlock
StartReturn(t) ==
    /\ tpc[t] = "return"
    /\ startMu' = 0
    /\ tres' = [tres EXCEPT ![t] = "nil"]
    /\ startOk' = startOk + 1
    /\ tpc' = [tpc EXCEPT ![t] = "idle"]
    /\ UNCHANGED <<cfgVars, started, cancel, ctxDone, wg, tafter, tfresh, tinflight, calls,
                   startIdx,
                   startErr, startLate, bootVars, waiter, leftBehind, sup, spawned, wpc, loopVars,
                   entryVars, clockVars>>

\* ---------------------------------------------------------- consumeStream
\* a worker loop launched without registering it
WgAfterAddMissing(n) == n

\* the counter after c.wg.Add(1) of line 125
WgAfterAdd(n) == n + 1

\* a loop that runs once too often
MoreWorkersOffByOne(i, n) == i <= n

\* line 124: the loop condition i < c.cfg.Concurrency
MoreWorkers(i, n) == i < n

\* lines 124-127: one iteration: c.wg.Add(1); go c.consumeLoop(ctx, stream, i)
SupLaunch(s) ==
    /\ sup[s].pc = "run"
    /\ MoreWorkers(sup[s].i, cfg.Concurrency)
    /\ wg' = WgAfterAdd(wg)
    /\ wpc' = [wpc EXCEPT ![<<s, sup[s].i>>] = "check"]
    /\ spawned' = spawned + 1
    /\ sup' = [sup EXCEPT ![s].i = @ + 1]
    /\ UNCHANGED <<cfgVars, started, startMu, cancel, ctxDone, callVars, bootVars,
                   waiter, leftBehind, loopVars, entryVars, clockVars>>

\* lines 121, 131 and 196: sync.WaitGroup wakes every goroutine blocked in
\* Wait when a Done brings the counter to n = 0; a woken goroutine has still
\* to run again before its Wait returns
Released(wt, n) ==
    [t \in Threads |-> IF wt[t] = "registered" /\ n = 0 THEN "released" ELSE wt[t]]

\* the same for the goroutines of earlier Stop calls
ReleasedBehind(lb, n) ==
    IF n = 0
    THEN [lb EXCEPT !["registered"] = 0, !["released"] = @ + lb["registered"]]
    ELSE lb

\* line 121: the deferred c.wg.Done() once the loop is over
SupDone(s) ==
    /\ sup[s].pc = "run"
    /\ ~MoreWorkers(sup[s].i, cfg.Concurrency)
    /\ wg' = wg - 1
    /\ waiter' = Released(waiter, wg')
    /\ leftBehind' = ReleasedBehind(leftBehind, wg')
    /\ sup' = [sup EXCEPT ![s].pc = "done"]
    /\ UNCHANGED <<cfgVars, started, startMu, cancel, ctxDone, callVars, bootVars,
                   spawned, wpc, loopVars, entryVars, clockVars>>

\* ------------------------------------------------------------ consumeLoop
RECURSIVE DeliveredUpTo(_)
DeliveredUpTo(s) == IF s = 0 THEN 0 ELSE nextId[s] + DeliveredUpTo(s - 1)

\* entries the producer has appended that no read has returned yet
Available == env.entries - DeliveredUpTo(MaxWorkers)

\* the k entries a read of stream s returns: the next ones never delivered
ReadBatch(s, k) == [j \in 1..k |-> <<s, nextId[s] + j>>]

\* an identity that leaves the ordinal out
ConsumerIdentityNoOrdinal(name, id) == name \o "-0"

\* line 139: the Consumer name of the worker with ordinal id
ConsumerIdentity(name, id) == name \o "-" \o ToString(id)

\* the name worker w presents in XReadGroupArgs
Consumer(w) == ConsumerIdentity(cfg.ConsumerName, w[2])

\* a loop that walks the batch backwards
EntryAtReversed(b, i) == b[Len(b) + 1 - i]

\* the entry the range loop of lines 159-163 visits at position i
EntryAt(b, i) == b[i]

\* a loop that skips every other entry
NextPosSkipping(i) == i + 2

\* the position the range loop visits after position i
NextPos(i) == i + 1

\* line 141: Count of XReadGroupArgs: at most count entries are returned;
\* a count that is not positive sets no limit
ReadLimit(count, avail) == IF count > 0 THEN Min(count, avail) ELSE avail

\* lines 133-136: the select takes case <-ctx.Done() when the context is
\* cancelled and the default case otherwise
Cancelled(done) == done

\* lines 133-143: the non-blocking look at ctx.Done(), then either return
\* (the deferred c.wg.Done()) or the XReadGroup call
WorkerCheck(w) ==
    /\ wpc[w] = "check"
    /\ IF Cancelled(ctxDone)
       THEN /\ wpc' = [wpc EXCEPT ![w] = "exited"]
            /\ wg' = wg - 1
            /\ waiter' = Released(waiter, wg')
            /\ leftBehind' = ReleasedBehind(leftBehind, wg')
       ELSE /\ wpc' = [wpc EXCEPT ![w] = "read"]
            /\ UNCHANGED <<wg, waiter, leftBehind>>
    /\ UNCHANGED <<cfgVars, started, startMu, cancel, ctxDone, callVars, bootVars,
                   sup, spawned, loopVars, entryVars, clockVars>>

\* a loop that goes on to the write of c.lastPoll after a read without data
ReadNilGoesToTouch == "touch"

\* lines 145-147: where redis.Nil sends the loop: continue, back to the select
ReadNilGoesTo == "check"

\* lines 145-147: the read returned redis.Nil (block timeout, no data)
ReadNil(w) ==
    /\ wpc[w] = "read"
    /\ wpc' = [wpc EXCEPT ![w] = ReadNilGoesTo]
    /\ UNCHANGED <<cfgVars, started, startMu, cancel, ctxDone, wg, callVars,
                   bootVars, waiter, leftBehind, sup, spawned, loopVars, entryVars, clockVars>>

\* a loop that returns when a read fails
ReadErrorGivesUp == "exited"

\* lines 148-151: where a failed read sends the loop: the sleep, then continue
ReadErrorGoesTo == "backoff"

\* lines 148-150: the read failed: log, then time.Sleep(time.Second)
ReadError(w) ==
    /\ wpc[w] = "read"
    /\ wpc' = [wpc EXCEPT ![w] = ReadErrorGoesTo]
    /\ UNCHANGED <<cfgVars, started, startMu, cancel, ctxDone, wg, callVars,
                   bootVars, waiter, leftBehind, sup, spawned, loopVars, entryVars, clockVars>>

\* line 151: the sleep is over, continue
BackoffDone(w) ==
    /\ wpc[w] = "backoff"
    /\ wpc' = [wpc EXCEPT ![w] = "check"]
    /\ UNCHANGED <<cfgVars, started, startMu, cancel, ctxDone, wg, callVars,
                   bootVars, waiter, leftBehind, sup, spawned, loopVars, entryVars, clockVars>>

\* lines 137-143: XReadGroup returned k entries (err == nil); nothing else
\* has happened yet
ReadData(w, k) ==
    /\ wpc[w] = "read"
    /\ k \in 1..ReadLimit(cfg.ReadCount, Available)
    /\ batch' = [batch EXCEPT ![w] = ReadBatch(w[1], k)]
    /\ nextId' = [nextId EXCEPT ![w[1]] = @ + k]
    /\ lastRead' = now
    /\ wpc' = [wpc EXCEPT ![w] = "touch"]
    /\ UNCHANGED <<cfgVars, started, startMu, cancel, ctxDone, wg, callVars,
                   bootVars, waiter, leftBehind, sup, spawned, idx, order, entryVars, now,
                   lastPoll>>

\* lines 155-157: c.lastPoll = time.Now() under c.lastPollMu; the lock is
\* held for this one assignment, so taking it, writing and releasing it are
\* one step, taken when the lock is free
TouchPoll(w) ==
    /\ wpc[w] = "touch"
    /\ lastPoll' = now
    /\ wpc' = [wpc EXCEPT ![w] = "dispatch"]
    /\ UNCHANGED <<cfgVars, started, startMu, cancel, ctxDone, wg, callVars,
                   bootVars, waiter, leftBehind, sup, spawned, loopVars, entryVars, now,
                   lastRead>>

\* lines 159-161 and 168-178: the range loop is entered: processMessage calls
\* the handler for the first entry visited, or there is nothing to visit
DispatchFirst(w) ==
    /\ wpc[w] = "dispatch"
    /\ IF Len(batch[w]) >= 1
       THEN LET e == EntryAt(batch[w], 1)
            IN /\ idx' = [idx EXCEPT ![w] = 1]
               /\ handlerCalls' = [handlerCalls EXCEPT ![e] = @ + 1]
               /\ order' = [order EXCEPT ![w] = <<e>>]
               /\ wpc' = [wpc EXCEPT ![w] = "handler"]
       ELSE /\ wpc' = [wpc EXCEPT ![w] = "check"]
            /\ UNCHANGED <<idx, handlerCalls, order>>
    /\ UNCHANGED <<cfgVars, started, startMu, cancel, ctxDone, wg, callVars,
                   bootVars, waiter, leftBehind, sup, spawned, batch, nextId, handlerRes,
                   ackCalls, ackRes, processed, clockVars>>

\* --------------------------------------------------------- processMessage
\* an acknowledge that does not look at the handler's result
AckWantedAnyResult(ackOnSuccess, res) == ackOnSuccess

\* lines 178-183: XAck is called when the handler returned nil and
\* AckOnSuccess is set
AckWanted(ackOnSuccess, res) == res = "nil" /\ ackOnSuccess

\* processMessage returned for entry e at idx[w]: the range loop goes to the
\* next entry of the batch and calls its handler, or to the next iteration
Advance(w, e) ==
    /\ processed' = [processed EXCEPT ![e] = TRUE]
    /\ IF NextPos(idx[w]) <= Len(batch[w])
       THEN LET n == EntryAt(batch[w], NextPos(idx[w]))
            IN /\ idx' = [idx EXCEPT ![w] = NextPos(@)]
               /\ handlerCalls' = [handlerCalls EXCEPT ![n] = @ + 1]
               /\ order' = [order EXCEPT ![w] = Append(@, n)]
               /\ wpc' = [wpc EXCEPT ![w] = "handler"]
               /\ UNCHANGED batch
       ELSE /\ idx' = [idx EXCEPT ![w] = 0]
            /\ batch' = [batch EXCEPT ![w] = <<>>]
            /\ order' = [order EXCEPT ![w] = <<>>]
            /\ wpc' = [wpc EXCEPT ![w] = "check"]
            /\ UNCHANGED handlerCalls

\* lines 178-184: the handler returned res for the entry being processed
HandlerReturn(w, res) ==
    /\ wpc[w] = "handler"
    /\ LET e == EntryAt(batch[w], idx[w])
       IN /\ handlerRes' = [handlerRes EXCEPT ![e] = res]
          /\ IF AckWanted(cfg.AckOnSuccess, res)
             THEN /\ ackCalls' = [ackCalls EXCEPT ![e] = @ + 1]
                  /\ wpc' = [wpc EXCEPT ![w] = "ack"]
                  /\ UNCHANGED <<processed, idx, batch, order, handlerCalls>>
             ELSE /\ Advance(w, e)
                  /\ UNCHANGED ackCalls
    /\ UNCHANGED <<cfgVars, started, startMu, cancel, ctxDone, wg, callVars,
                   bootVars, waiter, leftBehind, sup, spawned, nextId, ackRes, clockVars>>

\* lines 184-187: XAck returned res; an error is logged and nothing else
AckReturn(w, res) ==
    /\ wpc[w] = "ack"
    /\ LET e == EntryAt(batch[w], idx[w])
       IN /\ ackRes' = [ackRes EXCEPT ![e] = res]
          /\ Advance(w, e)
    /\ UNCHANGED <<cfgVars, started, startMu, cancel, ctxDone, wg, callVars,
                   bootVars, waiter, leftBehind, sup, spawned, nextId, handlerRes, ackCalls,
                   clockVars>>

\* ------------------------------------------------------------------- Stop
\* a wait that does not wait
WaitReturnsAtOnce(n) == TRUE

\* line 196: c.wg.Wait() returns when the counter is zero
WaitReturns(n) == n = 0

\* a Stop that marks the context cancelled without looking at c.cancel
DoneAfterCancelUnguarded(done, cancelSet) == TRUE

\* lines 191-193: c.cancel() is called only when c.cancel is not nil
DoneAfterCancel(done, cancelSet) == done \/ cancelSet

\* lines 195-198: every call of Stop starts a goroutine of its own; the one of
\* an earlier call, at place st, goes on unless it has closed its done
KeptBehind(lb, st) ==
    IF st \in {"waiting", "registered", "released"}
    THEN [lb EXCEPT ![st] = @ + 1]
    ELSE lb

\* lines 191-198: cancel if c.cancel is set, then start the goroutine that
\* waits on c.wg; the caller blocks in the select of line 199
StopEnter(t) ==
    /\ ctor = "nil"
    /\ tpc[t] = "idle"
    /\ calls < env.calls
    /\ calls' = calls + 1
    /\ ctxDone' = DoneAfterCancel(ctxDone, cancel)
    /\ waiter' = [waiter EXCEPT ![t] = "waiting"]
    /\ leftBehind' = KeptBehind(leftBehind, waiter[t])
    /\ tafter' = [tafter EXCEPT ![t] = (startOk > 0)]
    /\ tfresh' = [tfresh EXCEPT ![t] = ~started]
    /\ tinflight' = [tinflight EXCEPT
                       ![t] = {e \in AllEntries :
                                 handlerCalls[e] > 0 /\ handlerRes[e] = "none"}]
    /\ tpc' = [tpc EXCEPT ![t] = "select"]
    /\ tres' = [tres EXCEPT ![t] = "none"]
    /\ UNCHANGED <<cfgVars, started, startMu, cancel, wg, startIdx, startOk,
                   startErr, startLate, bootVars, sup, spawned, wpc, loopVars, entryVars,
                   clockVars>>

\* line 196: c.wg.Wait() finds the counter above zero: the goroutine is
\* registered as a waiter of c.wg and blocks
WaiterWait(t) ==
    /\ waiter[t] = "waiting"
    /\ ~WaitReturns(wg)
    /\ waiter' = [waiter EXCEPT ![t] = "registered"]
    /\ UNCHANGED <<cfgVars, started, startMu, cancel, ctxDone, wg, callVars,
                   bootVars, leftBehind, sup, spawned, wpc, loopVars, entryVars, clockVars>>

\* line 196: what a goroutine woken in Wait finds when it runs again with the
\* counter at n: a counter raised again by a c.wg.Add(1) of lines 113 or 125
\* makes Wait panic ("sync: WaitGroup is reused before previous Wait has
\* returned"); otherwise Wait returns
Resumed(n) == IF n # 0 THEN "panic" ELSE "closed"

\* lines 196-197: c.wg.Wait() is over: it found the counter at zero, or the
\* woken goroutine runs again; close(done) follows unless Wait panicked
WaiterDone(t) ==
    /\ \/ waiter[t] = "waiting" /\ WaitReturns(wg)
       \/ waiter[t] = "released"
    /\ waiter' = [waiter EXCEPT
                    ![t] = IF waiter[t] = "released" THEN Resumed(wg) ELSE "closed"]
    /\ UNCHANGED <<cfgVars, started, startMu, cancel, ctxDone, wg, callVars,
                   bootVars, leftBehind, sup, spawned, wpc, loopVars, entryVars,
                   clockVars>>

\* line 196: where c.wg.Wait() takes a goroutine at place st with the counter
\* at n: one that calls Wait blocks unless the counter is zero, one that was
\* woken resumes; "closed" stands for Wait returned, close(done)
WaitStep(st, n) ==
    IF st = "waiting"
    THEN IF WaitReturns(n) THEN "closed" ELSE "registered"
    ELSE Resumed(n)

\* lines 196-197: a goroutine of an earlier Stop call runs: it calls
\* c.wg.Wait(), or was woken in it and resumes; once it has closed its done,
\* which nobody receives from, it is over
LeftBehindStep(st) ==
    /\ leftBehind[st] > 0
    /\ leftBehind' = [x \in LeftStates |->
                        leftBehind[x] - (IF x = st THEN 1 ELSE 0)
                                      + (IF x = WaitStep(st, wg) THEN 1 ELSE 0)]
    /\ UNCHANGED <<cfgVars, started, startMu, cancel, ctxDone, wg, callVars,
                   bootVars, waiter, sup, spawned, wpc, loopVars, entryVars,
                   clockVars>>

\* lines 200 and 204: the select takes <-done
StopReturnNil(t) ==
    /\ tpc[t] = "select"
    /\ waiter[t] = "closed"
    /\ tres' = [tres EXCEPT ![t] = "stop: nil"]
    /\ tpc' = [tpc EXCEPT ![t] = "idle"]
    /\ tinflight' = [tinflight EXCEPT ![t] = {}]
    /\ UNCHANGED <<cfgVars, started, startMu, cancel, ctxDone, wg, tafter, tfresh, calls,
                   startIdx, startOk, startErr, startLate, bootVars, waiter, leftBehind, sup, spawned,
                   wpc, loopVars, entryVars, clockVars>>

\* lines 201-202: the caller's context is done (its deadline expired, or it
\* was already done when Stop was called) and the select takes <-ctx.Done();
\* the waiting goroutine is left behind
StopReturnDeadline(t) ==
    /\ tpc[t] = "select"
    /\ ~env.patient
    /\ tres' = [tres EXCEPT ![t] = "stop: context deadline exceeded"]
    /\ tpc' = [tpc EXCEPT ![t] = "idle"]
    /\ UNCHANGED <<cfgVars, started, startMu, cancel, ctxDone, wg, tafter, tfresh,
                   tinflight, calls,
                   startIdx, startOk, startErr, startLate, bootVars, waiter, leftBehind, sup, spawned,
                   wpc, loopVars, entryVars, clockVars>>

\* ----------------------------------------------------------------- Health
\* line 210: the test time.Since(c.lastPoll) > 30*time.Second
Stale(elapsed) == elapsed > StaleAfter

\* lines 207-214: the error Health returns ("nil": healthy)
Health == IF Stale(now - lastPoll) THEN "no recent poll" ELSE "nil"

\* the clock moves in steps of a second more than the staleness threshold
TickSteps == {StaleAfter + 1}

\* d seconds pass
Tick(d) ==
    /\ now + d <= MaxNow
    /\ now' = now + d
    /\ UNCHANGED <<cfgVars, started, startMu, cancel, ctxDone, wg, callVars,
                   bootVars, waiter, leftBehind, sup, spawned, wpc, loopVars, entryVars,
                   lastPoll, lastRead>>

\* --------------------------------------------------------- specifications
\* the calling threads are interchangeable: thread 1 makes the first call
\* an unrecovered panic in the goroutine of Stop ends the process, and with it
\* every goroutine
Crashed == (\E t \in Threads : waiter[t] = "panic") \/ leftBehind["panic"] > 0

ThreadStep(t) ==
    \/ ~Crashed /\ (t = 1 \/ calls > 0) /\ StartEnter(t)
    \/ ~Crashed /\ StartGroupCreate(t)
    \/ ~Crashed /\ StartHealth(t)
    \/ ~Crashed /\ StartLaunch(t)
    \/ ~Crashed /\ StartReturn(t)
    \/ ~Crashed /\ (t = 1 \/ calls > 0) /\ StopEnter(t)
    \/ ~Crashed /\ WaiterWait(t)
    \/ ~Crashed /\ WaiterDone(t)
    \/ ~Crashed /\ StopReturnNil(t)
    \/ ~Crashed /\ StopReturnDeadline(t)

SupStep(s) ==
    \/ ~Crashed /\ SupLaunch(s)
    \/ ~Crashed /\ SupDone(s)

WorkerStep(w) ==
    \/ ~Crashed /\ WorkerCheck(w)
    \/ ~Crashed /\ ReadNil(w)
    \/ ~Crashed /\ ReadError(w)
    \/ ~Crashed /\ BackoffDone(w)
    \/ ~Crashed /\ \E k \in 1..MaxEntries : ReadData(w, k)
    \/ ~Crashed /\ TouchPoll(w)
    \/ ~Crashed /\ DispatchFirst(w)
    \/ ~Crashed /\ \E res \in {"nil", "error"} : HandlerReturn(w, res)
    \/ ~Crashed /\ \E res \in {"nil", "error"} : AckReturn(w, res)

Next ==
    \/ \E t \in Threads : ThreadStep(t)
    \/ ~Crashed /\ \E st \in {"waiting", "released"} : LeftBehindStep(st)
    \/ \E s \in StreamIdx : SupStep(s)
    \/ \E w \in AllWorkers : WorkerStep(w)

Spec == Init /\ [][Next]_vars
SpecWork == InitWork /\ [][Next]_vars
SpecConfig == InitConfig /\ [][Configure]_vars

NextTimed ==
    \/ Next
    \/ \E d \in TickSteps : Tick(d)

SpecHealth == InitHealth /\ [][NextTimed]_vars

NextBoot ==
    \/ Next
    \/ ~Crashed /\ ServeHealthFails

SpecBoot == InitBoot /\ [][NextBoot]_vars

\* every goroutine that can take a step is scheduled in the end; reads return
\* (the block time is finite) and so do the handler and XAck
SpecFair ==
    /\ InitFair
    /\ [][Next]_vars
    /\ \A w \in AllWorkers : WF_vars(WorkerStep(w))
    /\ \A s \in StreamIdx : WF_vars(SupStep(s))

\* callers whose Stop context never expires
ThreadStepPatient(t) ==
    \/ ~Crashed /\ (t = 1 \/ calls > 0) /\ StartEnter(t)
    \/ ~Crashed /\ StartGroupCreate(t)
    \/ ~Crashed /\ StartHealth(t)
    \/ ~Crashed /\ StartLaunch(t)
    \/ ~Crashed /\ StartReturn(t)
    \/ ~Crashed /\ (t = 1 \/ calls > 0) /\ StopEnter(t)
    \/ ~Crashed /\ WaiterWait(t)
    \/ ~Crashed /\ WaiterDone(t)
    \/ ~Crashed /\ StopReturnNil(t)

NextPatient ==
    \/ \E t \in Threads : ThreadStepPatient(t)
    \/ \E s \in StreamIdx : SupStep(s)
    \/ \E w \in AllWorkers : WorkerStep(w)

\* a call that has begun runs to its end: the body of Start returns, the
\* goroutine of Stop that waits on c.wg is scheduled, and so is the select
\* of Stop once done is closed
CallRuns(t) ==
    \/ ~Crashed /\ StartGroupCreate(t)
    \/ ~Crashed /\ StartHealth(t)
    \/ ~Crashed /\ StartLaunch(t)
    \/ ~Crashed /\ StartReturn(t)
    \/ ~Crashed /\ WaiterWait(t)
    \/ ~Crashed /\ WaiterDone(t)
    \/ ~Crashed /\ StopReturnNil(t)

SpecLive ==
    /\ InitFair
    /\ [][NextPatient]_vars
    /\ \A w \in AllWorkers : WF_vars(WorkerStep(w))
    /\ \A s \in StreamIdx : WF_vars(SupStep(s))
    /\ \A t \in Threads : WF_vars(CallRuns(t))

\* the callers of InitLife: a call that has begun runs to its end, its Stop
\* may return on its context unless that is never done
SpecLife ==
    /\ InitLife
    /\ [][Next]_vars
    /\ \A t \in Threads : WF_vars(CallRuns(t))

\* ----------------------------------------------------------------- claims
SetOf(seq) == {seq[k] : k \in 1..Len(seq)}
Delivered(e) == e[2] <= nextId[e[1]]
InHandler(e) == handlerCalls[e] > 0 /\ handlerRes[e] = "none"
NumWorkers == Len(cfg.Streams) * cfg.Concurrency

\* C1: over any sequence of Start calls at most one returns nil and every
\* other one returns "consumer already started"; the number of worker loops
\* launched never exceeds streams x concurrency and is exactly that once the
\* supervisors of the one successful Start have finished.
C1_StartOnce ==
    /\ startOk <= 1
    /\ (startErr > 0 => started)
    /\ (tpc = [t \in Threads |-> "idle"] /\ startOk + startErr > 0 => startOk = 1)
    /\ spawned <= NumWorkers
    /\ (startOk = 1 /\ (\A s \in Streams : sup[s].pc = "done") => spawned = NumWorkers)

C1_Witness ==
    /\ startOk = 1
    /\ startErr = 2
    /\ NumWorkers = 2
    /\ spawned = 2

\* C2: a Stop that began after Start returned has returned nil only if every
\* supervisor and every worker loop has exited (and stays so); after Start
\* returned the join counter is zero only when no worker loop is running or
\* still to be launched.
C2_StopNilAllExited ==
    /\ \A t \in Threads : tres[t] = "stop: nil" /\ tafter[t] => AllWorkersExited
    /\ (startOk > 0 /\ wg = 0 => AllWorkersExited)

C2_Witness ==
    \E t \in Threads :
        /\ tres[t] = "stop: nil"
        /\ tafter[t]
        /\ NumWorkers = 2
        /\ \E e \in AllEntries : processed[e]

\* C3: an entry whose handler returned nil with AckOnSuccess set has exactly
\* one XAck call, also after that call failed; an entry whose handler
\* returned an error has none; no XAck call precedes the handler's success.
C3_AckExactlyOnce ==
    \A e \in AllEntries :
        /\ ackCalls[e] <= 1
        /\ (ackCalls[e] > 0 => handlerRes[e] = "nil" /\ cfg.AckOnSuccess)
        /\ (handlerRes[e] = "nil" /\ cfg.AckOnSuccess => ackCalls[e] = 1)
        /\ (handlerRes[e] = "error" => ackCalls[e] = 0)
        /\ (ackRes[e] # "none" => ackCalls[e] = 1)

C3_Witness ==
    \E e, f \in AllEntries :
        /\ processed[e] /\ ackRes[e] = "error" /\ ackCalls[e] = 1
        /\ processed[f] /\ handlerRes[f] = "error" /\ ackCalls[f] = 0

\* where a worker loop is between a read that returned entries and the end
\* of the range loop over them
InBatch == {"touch", "dispatch", "handler", "ack"}

\* C5: of every stream at most Concurrency entries are inside a handler call
\* at once, and every delivered entry whose processMessage has not returned
\* belongs to the batch of a worker of its stream that is still working on
\* that batch: a worker that reads again has nothing of an earlier batch
\* outstanding.
C5_AtMostNInHandler ==
    /\ \A s \in StreamIdx :
          Cardinality({e \in AllEntries : e[1] = s /\ InHandler(e)}) <= cfg.Concurrency
    /\ \A e \in AllEntries :
          Delivered(e) /\ ~processed[e] =>
              \E w \in AllWorkers : /\ w[1] = e[1]
                                    /\ wpc[w] \in InBatch
                                    /\ e \in SetOf(batch[w])

C5_Witness ==
    /\ cfg.Concurrency = 2
    /\ Cardinality({e \in AllEntries : e[1] = 1 /\ InHandler(e)}) = 2

\* C6: every delivered entry is handed to the handler exactly once: its
\* handler call has begun once, or it waits in its worker's batch behind the
\* entry being processed; an entry not delivered has no handler call; an
\* error of the handler for an earlier entry of the batch changes nothing.
C6_DispatchedExactlyOnce ==
    \A e \in AllEntries :
        /\ handlerCalls[e] <= 1
        /\ (~Delivered(e) => handlerCalls[e] = 0)
        /\ (Delivered(e) /\ handlerCalls[e] = 0 =>
               \E w \in AllWorkers :
                   \E k \in 1..Len(batch[w]) : batch[w][k] = e /\ k > idx[w])
        /\ (processed[e] => handlerCalls[e] = 1 /\ handlerRes[e] # "none")

C6_Witness ==
    \E w \in AllWorkers :
        /\ Len(batch[w]) = 2
        /\ idx[w] = 2
        /\ wpc[w] = "handler"
        /\ handlerRes[batch[w][1]] = "error"
        /\ handlerCalls[batch[w][2]] = 1
        /\ \E e \in AllEntries : processed[e] /\ e \notin SetOf(batch[w])

\* C7: the handler calls of a batch begin in the order the read returned the
\* entries, and when the call for an entry begins processMessage has
\* returned for every entry before it.
C7_BatchOrder ==
    \A w \in AllWorkers :
        /\ order[w] = SubSeq(batch[w], 1, idx[w])
        /\ \A k \in 1..Len(order[w]) :
              /\ k < Len(order[w]) => processed[order[w][k]]
              /\ k = Len(order[w]) => ~processed[order[w][k]]
        /\ \A k \in 1..(Len(batch[w]) - 1) : batch[w][k][2] < batch[w][k + 1][2]

C7_Witness ==
    \E w \in AllWorkers :
        /\ Len(batch[w]) = 2
        /\ Len(order[w]) = 2
        /\ wpc[w] = "ack"
        /\ ackRes[order[w][1]] = "nil"

\* C9 as claimed: any two worker loops reading at the same time present
\* different consumer identities.
C9_Original ==
    \A w1, w2 \in AllWorkers :
        w1 # w2 /\ wpc[w1] = "read" /\ wpc[w2] = "read" => Consumer(w1) # Consumer(w2)

\* C9 amended: two worker loops of the same stream present different
\* consumer identities, "<ConsumerName>-<ordinal>"; worker loops of
\* different streams with the same ordinal present the same identity.
C9_DistinctPerStream ==
    \A w1, w2 \in AllWorkers :
        w1 # w2 /\ wpc[w1] # "off" /\ wpc[w2] # "off" =>
            /\ (w1[1] = w2[1] => Consumer(w1) # Consumer(w2))
            /\ (w1[2] = w2[2] => Consumer(w1) = Consumer(w2))

C9_Witness ==
    /\ wpc[<<1, 0>>] = "read"
    /\ wpc[<<1, 1>>] = "read"
    /\ Consumer(<<1, 0>>) = "c1-0"
    /\ Consumer(<<1, 1>>) = "c1-1"

\* C4 as claimed: Health reports an error exactly when more than 30 seconds
\* have passed since the last read that returned entries, and so whenever
\* there never was one.
C4_Original ==
    (Health # "nil") <=> (lastRead = -1 \/ now - lastRead > StaleAfter)

StopTimedOut == "stop: context deadline exceeded"

\* C8: a Stop that returns while a handler call that was in flight when it
\* began is still in flight returns the deadline error, never nil; no entry
\* ever has more than one XAck call; and a worker loop that is inside a
\* handler call once the context is cancelled leaves it and exits.
C8_DeadlineDuringHandler ==
    /\ [][\A t \in Threads :
             /\ tpc[t] = "select"
             /\ tpc'[t] = "idle"
             /\ \E e \in tinflight[t] : InHandler(e)
             => tres'[t] = StopTimedOut]_vars
    /\ [](\A e \in AllEntries : ackCalls[e] <= 1)
    /\ \A w \in AllWorkers : (ctxDone /\ wpc[w] = "handler") ~> (wpc[w] = "exited")

C8_Witness ==
    \E t \in Threads : \E e \in tinflight[t] :
        /\ tres[t] = StopTimedOut
        /\ tafter[t]
        /\ ctxDone
        /\ InHandler(e)
        /\ cfg.AckOnSuccess

\* C10 as claimed: NewConsumer replaces a zero or negative Concurrency,
\* ReadCount and BlockTime by 1, 10 and 5 seconds and keeps positive values,
\* so all three are positive in the engine it returns.
C10_Original ==
    ctor = "nil" =>
        /\ cfg.Concurrency =
              IF input.Concurrency <= 0 THEN DefaultConcurrency ELSE input.Concurrency
        /\ cfg.ReadCount =
              IF input.ReadCount <= 0 THEN DefaultReadCount ELSE input.ReadCount
        /\ cfg.BlockTime =
              IF input.BlockTime <= 0 THEN DefaultBlockTime ELSE input.BlockTime
        /\ cfg.Concurrency > 0 /\ cfg.ReadCount > 0 /\ cfg.BlockTime > 0

\* nothing of the engine is running: not started, no context, no goroutine
NothingRunning ==
    /\ ~started
    /\ ~cancel
    /\ ~ctxDone
    /\ wg = 0
    /\ spawned = 0
    /\ healthPc = "off"
    /\ \A s \in StreamIdx : sup[s].pc = "off"
    /\ \A w \in AllWorkers : wpc[w] = "off"

\* C11: NewConsumer returns an error (and no engine) exactly when the
\* handler is nil, the stream list is empty or the group name is empty;
\* otherwise it returns an engine that is not started and runs no goroutine.
C11_ConfigureValidates ==
    ctor # "pending" =>
        /\ (ctor # "nil") <=>
              (~handler \/ Len(input.Streams) = 0 \/ input.Group = "")
        /\ (ctor # "nil" => cfg = input)
        /\ (ctor = "nil" => cfg = NewConsumerCfg(input))
        /\ NothingRunning

C11_Witness ==
    /\ ctor = "streams and group are required"
    /\ handler
    /\ Len(input.Streams) > 0
    /\ input.Group = ""

\* the call that begins in this step is a Start: no thread enters Stop
StartBegins == \A u \in Threads : (tpc'[u] = "select") => (tpc[u] = "select")

\* lines 199-204: the call of Stop by thread t returns in this step
StopReturns(t) == tpc[t] = "select" /\ tpc'[t] = "idle"

\* C12 as claimed: the lifecycle state never moves backwards; a Stop on an
\* engine that was never started returns nil and leaves it NotStarted; a
\* Start on an engine that has been started and stopped returns an error and
\* launches nothing.
C12_Original ==
    /\ [][Lifecycle' >= Lifecycle]_vars
    /\ [][\A t \in Threads :
             StopReturns(t) /\ ~started =>
                 tres'[t] = "stop: nil" /\ Lifecycle' = 0]_vars
    /\ [][(calls' = calls + 1 /\ Lifecycle = 3 /\ StartBegins) =>
              /\ \E t \in Threads : tres'[t] = "consumer already started"
              /\ UNCHANGED <<started, spawned>>]_vars

\* C12 amended: the lifecycle state never moves backwards; a Stop on an engine
\* that was never started changes nothing of it, leaves it NotStarted and has
\* nothing to wait for: until a Start begins its goroutine is never blocked in
\* c.wg.Wait(), and when it returns with still no Start begun it returns nil,
\* or the error of the caller's context if that is done first; with a context
\* that is never done it returns nil, unless a Start begins meanwhile. A Start
\* on an engine that has been started, also after it was stopped, returns
\* "consumer already started" and launches nothing.
C12_LifecycleForward ==
    /\ [][Lifecycle' >= Lifecycle]_vars
    /\ [][\A t \in Threads :
             tpc[t] = "idle" /\ tpc'[t] = "select" /\ ~started =>
                 /\ UNCHANGED <<started, cancel, ctxDone, wg, sup, wpc, spawned>>
                 /\ Lifecycle' = 0]_vars
    /\ [](\A t \in Threads : ~started /\ waiter[t] = "waiting" => WaitReturns(wg))
    /\ [](\A t \in Threads :
             ~started /\ tpc[t] = "select" =>
                 waiter[t] = "closed" \/ (waiter[t] = "waiting" /\ WaitReturns(wg)))
    /\ [][\A t \in Threads :
             StopReturns(t) /\ ~started =>
                 /\ Lifecycle' = 0
                 /\ \/ tres'[t] = "stop: nil"
                    \/ ~env.patient /\ tres'[t] = StopTimedOut]_vars
    /\ \A t \in Threads :
          (env.patient /\ ~started /\ tpc[t] = "select")
              ~> (started \/ (tpc[t] = "idle" /\ tres[t] = "stop: nil"))
    /\ [][(calls' = calls + 1 /\ started /\ StartBegins) =>
              /\ startErr' = startErr + 1
              /\ \E t \in Threads : tres'[t] = "consumer already started"
              /\ UNCHANGED <<tpc, started, cancel, ctxDone, wg, sup, wpc, spawned>>]_vars
    /\ [](startErr > 0 => started)

C12_Witness ==
    /\ startLate = 1
    /\ Lifecycle = 3
    /\ spawned = NumWorkers
    /\ \E t, u \in Threads :
          /\ tres[t] = "stop: nil" /\ tfresh[t]
          /\ tres[u] = "consumer already started"

\* C13: c.lastPoll changes only in the step in which a worker loop records
\* a read that returned at least one entry (and becomes the time of that
\* step), a step that only such a read leads to; a read that returns no data
\* or fails, a handler that returns and an XAck that returns leave it alone;
\* the no-data outcome goes straight back to the top of the loop, and the
\* backoff is entered only from a failed read.
C13_TouchedOnlyByData ==
    /\ [][lastPoll' # lastPoll =>
              \E w \in AllWorkers : /\ wpc[w] = "touch"
                                    /\ wpc'[w] = "dispatch"
                                    /\ Len(batch[w]) >= 1
                                    /\ lastPoll' = now]_vars
    /\ [][\A w \in AllWorkers :
             /\ ReadNil(w) => wpc'[w] = "check" /\ lastPoll' = lastPoll
             /\ ReadError(w) => wpc'[w] = "backoff" /\ lastPoll' = lastPoll
             /\ wpc[w] \in {"handler", "ack"} /\ (wpc'[w] # wpc[w] \/ idx'[w] # idx[w])
                   => lastPoll' = lastPoll]_vars
    /\ [][\A w \in AllWorkers :
             /\ wpc'[w] = "backoff" /\ wpc[w] # "backoff" => wpc[w] = "read"
             /\ wpc'[w] = "touch" /\ wpc[w] # "touch" =>
                   wpc[w] = "read" /\ Len(batch'[w]) >= 1]_vars

C13_Witness ==
    \E w \in AllWorkers :
        /\ wpc[w] = "backoff"
        /\ lastRead > 0
        /\ lastPoll >= lastRead
        /\ now > lastPoll
        /\ \E e \in AllEntries : handlerRes[e] = "error"

\* C14: a worker loop has exited only if the context is cancelled; a failed
\* read sends its worker to the backoff and changes neither the lifecycle
\* state nor the join counter nor any result of Start or Stop; and a worker
\* in the backoff reads again, unless the context is cancelled meanwhile
\* and it exits.
C14_ReadErrorsNeverFatal ==
    /\ [](\A w \in AllWorkers : wpc[w] = "exited" => ctxDone)
    /\ [][\A w \in AllWorkers :
             ReadError(w) =>
                 /\ wpc'[w] = "backoff"
                 /\ Lifecycle' = Lifecycle
                 /\ UNCHANGED <<started, cancel, ctxDone, wg, callVars>>]_vars
    /\ \A w \in AllWorkers :
          (wpc[w] = "backoff") ~> (wpc[w] = "read" \/ wpc[w] = "exited")

C14_Witness ==
    \E w \in AllWorkers :
        /\ wpc[w] = "backoff"
        /\ ~ctxDone
        /\ Lifecycle = 1
        /\ \E t \in Threads : tres[t] = "nil"
        /\ \E e \in AllEntries : processed[e] /\ e[1] = w[1]

\* C15 as claimed: when every goroutine that can run is scheduled, every
\* read, handler call and XAck returns and the caller of Stop never gives
\* up, then once the context is cancelled every consumeStream and
\* consumeLoop goroutine of the engine exits, and a Stop that waits on a
\* cancelled engine returns nil.
C15_Original ==
    /\ ctxDone ~> AllWorkersExited
    /\ \A t \in Threads :
          (ctxDone /\ tpc[t] = "select") ~> (tpc[t] = "idle" /\ tres[t] = "stop: nil")

\* C16 as claimed: once the context is cancelled, a worker loop that is not
\* blocked in a read begins no further handler call: the call in flight is
\* its last, the remaining entries of its batch are not dispatched.
C16_Original ==
    [][\A w \in AllWorkers :
          ctxDone /\ wpc[w] \in {"handler", "ack"} =>
              ~(wpc'[w] = "handler" /\ idx'[w] > idx[w])]_vars

\* C18 as claimed: with a health address configured, a Stop that began
\* after Start returned has returned nil only if the serveHealth goroutine
\* has exited too.
C18_Original ==
    \A t \in Threads :
        tres[t] = "stop: nil" /\ tafter[t] /\ cfg.HealthAddr # "" =>
            healthPc = "exited"

\* C19: whatever XGroupCreateMkStream answers for each configured stream,
\* a Start that got past the started test returns nil and nothing else;
\* when it has returned, every stream has been asked for its group and has
\* its consumeStream goroutine, also the streams whose group creation
\* failed; and once those have finished, all streams x concurrency worker
\* loops are launched.
C19_BootstrapNeverFails ==
    /\ \A t \in Threads :
          tres[t] \in {"none", "nil", "consumer already started", "stop: nil",
                       StopTimedOut}
    /\ (started /\ startMu = 0 => startOk = 1)
    /\ \A t \in Threads :
          tres[t] = "nil" =>
              \A s \in Streams : groupRes[s] = env.group[s] /\ sup[s].pc # "off"
    /\ (startOk = 1 /\ (\A s \in Streams : sup[s].pc = "done") =>
            spawned = NumWorkers /\ \A w \in Workers : wpc[w] # "off")

C19_Witness ==
    /\ Len(cfg.Streams) = 2
    /\ groupRes[1] = "error"
    /\ groupRes[2] = "BUSYGROUP"
    /\ \E t \in Threads : tres[t] = "nil"
    /\ spawned = 2
    /\ wpc[<<1, 0>>] = "handler"
    /\ wpc[<<2, 0>>] = "backoff"

\* C20 as claimed: when a Stop returns nil and a Start has begun by then,
\* the context that Start derived is cancelled: no worker loop of that Start
\* is running, or is launched later, on a context that is still live.
C20_Original ==
    [][\A t \in Threads :
          /\ tpc[t] = "select"
          /\ tpc'[t] = "idle"
          /\ tres'[t] = "stop: nil"
          /\ started
          => ctxDone]_vars

====
